---- MODULE Spec2Model ----
(***************************************************************************)
(* Model of the multi-provider generation endpoint (onRequestPost) of      *)
(* tuneforge: request validation, provider routing, the batch scheduler    *)
(* over eagerly created call tasks, per-task retry with backoff, the       *)
(* 95 s deadline timer and the final response.                             *)
(*                                                                         *)
(* One request is one behaviour.  A step of the model is one JavaScript    *)
(* job: the code that runs without suspension between two awaits.          *)
(***************************************************************************)
EXTENDS Integers, Sequences, FiniteSets, TLC

(***************************************************************************)
(* Bounds of the model.                                                    *)
(***************************************************************************)
MaxModels == 2
MaxN == 7
MaxSchedTasks == 13

MaxFailures == 4

(***************************************************************************)
(* Program constants.                                                      *)
(***************************************************************************)
BATCH_SIZE == 6

\* a retry budget one short
maxRetries_short == 3 - 1

maxRetries == 3

\* the largest request explored is the smallest one that needs two batches
MaxTasks == BATCH_SIZE + 1

(***************************************************************************)
(* Strings.  Model identifiers are sequences of characters so that         *)
(* startsWith and includes are computed, not assumed.                      *)
(***************************************************************************)
s_gpt == <<"g","p","t">>
s_o3 == <<"o","3">>
s_o4 == <<"o","4">>
s_claude == <<"c","l","a","u","d","e">>
s_deepseek == <<"d","e","e","p","s","e","e","k">>
s_xai_grok == <<"x","-","a","i","/","g","r","o","k">>
s_moonshotai == <<"m","o","o","n","s","h","o","t","a","i">>
s_gemini == <<"g","e","m","i","n","i">>
s_models_gemini == <<"m","o","d","e","l","s","/">> \o s_gemini

id_gpt4 == s_gpt \o <<"-","4">>
id_o3_mini == s_o3 \o <<"-","m","i","n","i">>
id_o4_mini == s_o4 \o <<"-","m","i","n","i">>
id_claude3 == s_claude \o <<"-","3">>
id_deepseek_r1 == s_deepseek \o <<"/">> \o s_deepseek \o <<"-","r","1">>
id_grok4 == s_xai_grok \o <<"-","4">>
id_kimi == s_moonshotai \o <<"/","k","i","m","i">>
id_gemini_pro == s_gemini \o <<"-","2",".","5","-","p","r","o">>
id_models_gemini_pro == s_models_gemini \o <<"-","2",".","5","-","p","r","o">>
id_unknown == <<"u","n","k","n","o","w","n","-","m","o","d","e","l","-","x">>
id_gpt_gemini == s_gpt \o <<"-">> \o s_gemini
id_claude_gemini == s_claude \o <<"-">> \o s_gemini
id_deepseek_gemini == s_deepseek \o <<"/">> \o s_gemini

startsWith(s, p) == Len(s) >= Len(p) /\ SubSeq(s, 1, Len(p)) = p

includes(s, p) ==
  \E i \in 1..(Len(s) - Len(p) + 1) : SubSeq(s, i, i + Len(p) - 1) = p

(***************************************************************************)
(* Provider routing: the if / else-if chain of generateSingleResponse.     *)
(* Each branch is guarded by the identifier pattern AND the client being   *)
(* non-null; a false guard falls through to the next branch.               *)
(***************************************************************************)
Providers == {"openai", "anthropic", "openrouter", "google"}
Unavailable == "none"


\* the last branch taken on the client alone, without its identifier test
Route_noGeminiTest(modelId, clientSet) ==
  IF (startsWith(modelId, s_gpt) \/ startsWith(modelId, s_o3)
        \/ startsWith(modelId, s_o4)) /\ "openai" \in clientSet
    THEN "openai"
  ELSE IF startsWith(modelId, s_claude) /\ "anthropic" \in clientSet
    THEN "anthropic"
  ELSE IF (startsWith(modelId, s_deepseek) \/ startsWith(modelId, s_xai_grok)
             \/ startsWith(modelId, s_moonshotai)) /\ "openrouter" \in clientSet
    THEN "openrouter"
  ELSE IF "google" \in clientSet
    THEN "google"
  ELSE "none"

Route(modelId, clientSet) ==
  IF (startsWith(modelId, s_gpt) \/ startsWith(modelId, s_o3)
        \/ startsWith(modelId, s_o4)) /\ "openai" \in clientSet
    THEN "openai"
  ELSE IF startsWith(modelId, s_claude) /\ "anthropic" \in clientSet
    THEN "anthropic"
  ELSE IF (startsWith(modelId, s_deepseek) \/ startsWith(modelId, s_xai_grok)
             \/ startsWith(modelId, s_moonshotai)) /\ "openrouter" \in clientSet
    THEN "openrouter"
  ELSE IF (includes(modelId, s_gemini) \/ startsWith(modelId, s_models_gemini))
             /\ "google" \in clientSet
    THEN "google"
  ELSE Unavailable

(***************************************************************************)
(* State.                                                                  *)
(***************************************************************************)
VARIABLES
  req,        \* the request: body parses or not, and the fields of its JSON
  env,        \* the providers whose API key is set in env
  pc,         \* where onRequestPost is suspended, or how it ended
  clients,    \* the provider clients constructed by the handler
  tstate,     \* per call task: "calling", "delay" or "done"
  retryCount, \* per call task: the retryCount argument of its current frame
  calls,      \* per call task: provider calls issued so far
  delays,     \* per call task: the backoff delays waited so far, in ms
  results,    \* per call task: the record its promise resolved to
  batchStart, \* the loop variable i of the batch loop
  pauses,     \* 100 ms pauses completed by the batch loop
  responses,  \* the handler's responses array
  response,   \* the Response the handler returned
  timer,      \* the 95 s deadline timer: "armed" or "fired"
  failures,   \* provider calls that have failed in this request
  rServed,    \* routing check: the provider Route chose for the single model
  cot,        \* single-call check: one provider answer and what is made of it
  sent,       \* request-building check: what one call hands to its provider
  exp         \* the export endpoint: its request, the store and its progress

vars == <<req, env, pc, clients, tstate, retryCount, calls, delays, results,
          batchStart, pauses, responses, response, timer, failures, rServed,
          cot, sent, exp>>

taskVars == <<tstate, retryCount, calls, delays, results, failures>>

Absent == "<absent>"

(***************************************************************************)
(* Records of the responses array.  A field the code does not set is       *)
(* Absent (strings) or 0 (numbers; every number the code sets is >= 1).    *)
(* error is the message without its suffix; errorAfter is the number in    *)
(* the suffix " (after N attempts)"; detailsAttempts is                    *)
(* errorDetails.attempts.                                                  *)
(***************************************************************************)
NumCompletions(n) == IF n = 0 THEN 1 ELSE n

\* the length of Array.from({ length: n || 1 }): a negative length is 0
ArrayLength(n) == IF NumCompletions(n) < 0 THEN 0 ELSE NumCompletions(n)

UnavailableRecord(modelId) ==
  [model |-> modelId, content |-> Absent, error |-> "Model not available",
   errorAfter |-> 0, detailsAttempts |-> 0,
   completionIndex |-> 0, totalCompletions |-> 0]

SuccessRecord(modelId, completionIndex, n) ==
  [model |-> modelId, content |-> "content", error |-> Absent,
   errorAfter |-> 0, detailsAttempts |-> 0,
   completionIndex |-> completionIndex + 1,
   totalCompletions |-> NumCompletions(n)]

\* an error record that keeps a content field
ExhaustedRecord_withContent(modelId, completionIndex, rc, n) ==
  [model |-> modelId, content |-> "", error |-> "provider error",
   errorAfter |-> maxRetries + 1, detailsAttempts |-> rc + 1,
   completionIndex |-> completionIndex + 1,
   totalCompletions |-> NumCompletions(n)]

ExhaustedRecord(modelId, completionIndex, rc, n) ==
  [model |-> modelId, content |-> Absent, error |-> "provider error",
   errorAfter |-> maxRetries + 1, detailsAttempts |-> rc + 1,
   completionIndex |-> completionIndex + 1,
   totalCompletions |-> NumCompletions(n)]

SystemRecord ==
  [model |-> <<"s","y","s","t","e","m">>, content |-> Absent,
   error |-> "No responses generated - all models failed or timed out",
   errorAfter |-> 0, detailsAttempts |-> 0,
   completionIndex |-> 0, totalCompletions |-> 0]

NoRecord ==
  [model |-> <<>>, content |-> Absent, error |-> Absent,
   errorAfter |-> 0, detailsAttempts |-> 0,
   completionIndex |-> 0, totalCompletions |-> 0]

NoResponse == [status |-> 0, error |-> Absent, responses |-> <<>>]

(***************************************************************************)
(* The requests explored.                                                  *)
(***************************************************************************)
RequestModelIds == {id_gpt4, id_unknown}

ModelLists == UNION {[1..k -> RequestModelIds] : k \in 0..MaxModels}

EnvChoices == {{}, Providers}

UnparseableRequest ==
  [parses |-> FALSE, hasBinId |-> FALSE, hasMessages |-> FALSE,
   hasModels |-> FALSE, models |-> <<>>, n |-> 0]

Requests ==
  {UnparseableRequest} \cup
  {r \in [parses : {TRUE}, hasBinId : BOOLEAN, hasMessages : BOOLEAN,
          hasModels : BOOLEAN, models : ModelLists,
          n : (0 - 1)..MaxN] :
     /\ (~r.hasModels => r.models = <<>>)
     /\ Len(r.models) * ArrayLength(r.n) <= MaxTasks}


\* the validation without its models.length === 0 test
Invalid_noEmptyTest(r) == ~r.hasBinId \/ ~r.hasMessages \/ ~r.hasModels

\* if (!binId || !messages || !models || models.length === 0)
Invalid(r) ==
  ~r.hasBinId \/ ~r.hasMessages \/ ~r.hasModels \/ Len(r.models) = 0


\* the two loops swapped: completion index outer, model inner
TaskArgs_swapped(models, n) ==
  [t \in 1..(Len(models) * ArrayLength(n)) |->
     [modelId |-> models[((t - 1) % Len(models)) + 1],
      completionIndex |-> (t - 1) \div Len(models)]]

(***************************************************************************)
(* Task creation: models.flatMap(modelId => Array.from({length: n || 1},   *)
(* (_, i) => generateSingleResponse(modelId, i))).                         *)
(***************************************************************************)
TaskArgs(models, n) ==
  [t \in 1..(Len(models) * ArrayLength(n)) |->
     [modelId |-> models[((t - 1) \div NumCompletions(n)) + 1],
      completionIndex |-> (t - 1) % NumCompletions(n)]]

Tasks == TaskArgs(req.models, req.n)

T == Len(Tasks)

RECURSIVE Pow2(_)
Pow2(k) == IF k = 0 THEN 1 ELSE 2 * Pow2(k - 1)

Min(a, b) == IF a < b THEN a ELSE b

\* a linear backoff: 1000, 2000, 3000
retryDelay_linear(attempt) == Min(1000 * (attempt + 1), 5000)

\* Math.min(1000 * Math.pow(2, attempt), 5000)
retryDelay(attempt) == Min(1000 * Pow2(attempt), 5000)

\* responsePromises.slice(i, i + BATCH_SIZE), as 1-based task numbers
BatchSlice(i) == (i + 1)..Min(i + BATCH_SIZE, T)

\* the identifiers the catch block of onRequestPost reads, and the ones in
\* scope there: const { binId, ..., models, ... } is declared inside try
CatchReads == {"error", "timestamp", "requestId", "models", "messages"}

CatchScope == {"error", "timestamp", "requestId", "timeoutPromise",
               "request", "env", "context"}

\* the result list returned as it is, without the empty-list guard
FinalResponses_noGuard(rs) == rs

\* if (responses.length === 0) responses = [ {model: 'system', ...} ]
FinalResponses(rs) == IF Len(rs) = 0 THEN <<SystemRecord>> ELSE rs


\* a status that follows the records: 500 once every record is an error
OkResponse_statusByErrors(rs) ==
  [status |-> IF \A k \in 1..Len(rs) : rs[k].error # Absent
                THEN 500 ELSE 200,
   error |-> Absent, responses |-> rs]

\* new Response(JSON.stringify({ responses }), { headers }): status 200
OkResponse(rs) == [status |-> 200, error |-> Absent, responses |-> rs]

Idle == "idle"

\* the single-call check is not running
NoCall == [phase |-> Idle]

\* the request-building check is not running
NoSend == [phase |-> Idle]

\* the export endpoint is not running
NoExport == [phase |-> Idle]

Init ==
  /\ req \in Requests
  /\ env \in EnvChoices
  /\ pc = "readBody"
  /\ clients = {}
  /\ tstate = <<>>
  /\ retryCount = <<>>
  /\ calls = <<>>
  /\ delays = <<>>
  /\ results = <<>>
  /\ batchStart = 0
  /\ pauses = 0
  /\ responses = <<>>
  /\ response = NoResponse
  /\ timer = "armed"
  /\ failures = 0
  /\ rServed = Idle
  /\ sent = NoSend
  /\ exp = NoExport
  /\ cot = NoCall

(***************************************************************************)
(* request.json() rejects: control enters the catch block, whose first     *)
(* statement reads models, which is not in scope there: a ReferenceError   *)
(* leaves the handler.  Were every name in scope it would return the 500.  *)
(***************************************************************************)
BodyUnparseable ==
  /\ pc = "readBody"
  /\ ~req.parses
  /\ IF CatchReads \subseteq CatchScope
       THEN /\ pc' = "returned"
            /\ response' = [status |-> 500, error |-> "parse error",
                            responses |-> <<>>]
       ELSE /\ pc' = "threw"
            /\ response' = response
  /\ UNCHANGED <<req, env, clients, taskVars, batchStart, pauses, responses,
                 timer, rServed, cot, sent, exp>>

(***************************************************************************)
(* Validation fails: the 400 is returned before any client is built.       *)
(***************************************************************************)
RejectInvalid ==
  /\ pc = "readBody"
  /\ req.parses
  /\ Invalid(req)
  /\ pc' = "returned"
  /\ response' = [status |-> 400, error |-> "Invalid request",
                  responses |-> <<>>]
  /\ UNCHANGED <<req, env, clients, taskVars, batchStart, pauses, responses,
                 timer, rServed, cot, sent, exp>>

(***************************************************************************)
(* Validation passes.  In one job the handler builds the clients, calls    *)
(* generateSingleResponse for every (model, i) -- each call runs to its    *)
(* first await, i.e. issues its provider call, or returns the "Model not   *)
(* available" record -- and suspends on the first Promise.all.             *)
(***************************************************************************)
AcceptAndFanOut ==
  /\ pc = "readBody"
  /\ req.parses
  /\ ~Invalid(req)
  /\ clients' = env
  /\ tstate' = [t \in 1..T |->
       IF Route(Tasks[t].modelId, env) = Unavailable THEN "done" ELSE "calling"]
  /\ retryCount' = [t \in 1..T |-> 0]
  /\ calls' = [t \in 1..T |->
       IF Route(Tasks[t].modelId, env) = Unavailable THEN 0 ELSE 1]
  /\ delays' = [t \in 1..T |-> <<>>]
  /\ results' = [t \in 1..T |->
       IF Route(Tasks[t].modelId, env) = Unavailable
         THEN UnavailableRecord(Tasks[t].modelId) ELSE NoRecord]
  /\ pc' = IF T > BATCH_SIZE THEN "awaitBatch" ELSE "awaitAll"
  /\ UNCHANGED <<req, env, batchStart, pauses, responses, response, timer,
                 failures, rServed, cot, sent, exp>>

\* a task that calls the provider once more after its successful attempt
CallSucceeds_extraCall(t) ==
  /\ t \in DOMAIN tstate
  /\ tstate[t] = "calling"
  /\ tstate' = [tstate EXCEPT ![t] = "done"]
  /\ calls' = [calls EXCEPT ![t] = @ + 1]
  /\ results' = [results EXCEPT ![t] =
       SuccessRecord(Tasks[t].modelId, Tasks[t].completionIndex, req.n)]
  /\ UNCHANGED <<req, env, pc, clients, retryCount, delays, batchStart,
                 pauses, responses, response, timer, failures, rServed, cot, sent, exp>>

(***************************************************************************)
(* generateSingleResponse: the provider call of task t returns.            *)
(***************************************************************************)
CallSucceeds(t) ==
  /\ t \in DOMAIN tstate
  /\ tstate[t] = "calling"
  /\ tstate' = [tstate EXCEPT ![t] = "done"]
  /\ results' = [results EXCEPT ![t] =
       SuccessRecord(Tasks[t].modelId, Tasks[t].completionIndex, req.n)]
  /\ UNCHANGED <<req, env, pc, clients, retryCount, calls, delays, batchStart,
                 pauses, responses, response, timer, failures, rServed, cot, sent, exp>>

(***************************************************************************)
(* The provider call of task t throws and retryCount < maxRetries: the     *)
(* task waits retryDelay(retryCount) ms.                                   *)
(***************************************************************************)
CallFailsRetry(t) ==
  /\ t \in DOMAIN tstate
  /\ tstate[t] = "calling"
  /\ failures < MaxFailures
  /\ retryCount[t] < maxRetries
  /\ tstate' = [tstate EXCEPT ![t] = "delay"]
  /\ delays' = [delays EXCEPT ![t] = Append(@, retryDelay(retryCount[t]))]
  /\ failures' = failures + 1
  /\ UNCHANGED <<req, env, pc, clients, retryCount, calls, results, batchStart,
                 pauses, responses, response, timer, rServed, cot, sent, exp>>

\* the last failure thrown on instead of turned into a record: the task's
\* promise never resolves
CallFailsFinal_rethrown(t) ==
  /\ t \in DOMAIN tstate
  /\ tstate[t] = "calling"
  /\ failures < MaxFailures
  /\ ~(retryCount[t] < maxRetries)
  /\ tstate' = [tstate EXCEPT ![t] = "rejected"]
  /\ failures' = failures + 1
  /\ UNCHANGED <<req, env, pc, clients, retryCount, calls, delays, results,
                 batchStart, pauses, responses, response, timer, rServed, cot,
                 sent, exp>>

(***************************************************************************)
(* The provider call throws and the retries are used up: the task returns  *)
(* the error record.                                                       *)
(***************************************************************************)
CallFailsFinal(t) ==
  /\ t \in DOMAIN tstate
  /\ tstate[t] = "calling"
  /\ failures < MaxFailures
  /\ ~(retryCount[t] < maxRetries)
  /\ tstate' = [tstate EXCEPT ![t] = "done"]
  /\ results' = [results EXCEPT ![t] =
       ExhaustedRecord(Tasks[t].modelId, Tasks[t].completionIndex,
                       retryCount[t], req.n)]
  /\ failures' = failures + 1
  /\ UNCHANGED <<req, env, pc, clients, retryCount, calls, delays, batchStart,
                 pauses, responses, response, timer, rServed, cot, sent, exp>>

\* a retry counter shared by the tasks of the request
RetryDelayElapses_sharedCount(t) ==
  /\ t \in DOMAIN tstate
  /\ tstate[t] = "delay"
  /\ retryCount' = [u \in DOMAIN retryCount |-> retryCount[u] + 1]
  /\ calls' = [calls EXCEPT ![t] = @ + 1]
  /\ tstate' = [tstate EXCEPT ![t] = "calling"]
  /\ UNCHANGED <<req, env, pc, clients, delays, results, batchStart, pauses,
                 responses, response, timer, failures, rServed, cot, sent,
                 exp>>

(***************************************************************************)
(* The backoff timer of task t fires: generateSingleResponse(modelId,      *)
(* completionIndex, retryCount + 1) issues the next provider call.         *)
(***************************************************************************)
RetryDelayElapses(t) ==
  /\ t \in DOMAIN tstate
  /\ tstate[t] = "delay"
  /\ retryCount' = [retryCount EXCEPT ![t] = @ + 1]
  /\ calls' = [calls EXCEPT ![t] = @ + 1]
  /\ tstate' = [tstate EXCEPT ![t] = "calling"]
  /\ UNCHANGED <<req, env, pc, clients, delays, results, batchStart, pauses,
                 responses, response, timer, failures, rServed, cot, sent, exp>>

AllDone(S) == \A t \in S : tstate[t] = "done"

ResultsOf(i) == [k \in 1..Cardinality(BatchSlice(i)) |-> results[i + k]]

\* the pause taken after every batch, the last one included
BatchResolvesPause_afterLast ==
  /\ pc = "awaitBatch"
  /\ AllDone(BatchSlice(batchStart))
  /\ batchStart + BATCH_SIZE <= T
  /\ responses' = responses \o ResultsOf(batchStart)
  /\ pc' = "pause"
  /\ UNCHANGED <<req, env, clients, taskVars, batchStart, pauses, response,
                 timer, rServed, cot, sent, exp>>

(***************************************************************************)
(* Promise.all(batch) resolves and another batch follows: the results are  *)
(* pushed and the loop sleeps 100 ms.                                      *)
(***************************************************************************)
BatchResolvesPause ==
  /\ pc = "awaitBatch"
  /\ AllDone(BatchSlice(batchStart))
  /\ batchStart + BATCH_SIZE < T
  /\ responses' = responses \o ResultsOf(batchStart)
  /\ pc' = "pause"
  /\ UNCHANGED <<req, env, clients, taskVars, batchStart, pauses, response,
                 timer, rServed, cot, sent, exp>>

(***************************************************************************)
(* The 100 ms pause ends: i += BATCH_SIZE, the next slice is awaited.      *)
(***************************************************************************)
PauseElapses ==
  /\ pc = "pause"
  /\ batchStart' = batchStart + BATCH_SIZE
  /\ pauses' = pauses + 1
  /\ pc' = "awaitBatch"
  /\ UNCHANGED <<req, env, clients, taskVars, responses, response, timer,
                 rServed, cot, sent, exp>>

(***************************************************************************)
(* Promise.all of the last batch resolves: the results are pushed, the     *)
(* loop ends and the handler returns the 200 response.                     *)
(***************************************************************************)
BatchResolvesLast ==
  /\ pc = "awaitBatch"
  /\ AllDone(BatchSlice(batchStart))
  /\ ~(batchStart + BATCH_SIZE < T)
  /\ responses' = FinalResponses(responses \o ResultsOf(batchStart))
  /\ response' = OkResponse(responses')
  /\ pc' = "returned"
  /\ UNCHANGED <<req, env, clients, taskVars, batchStart, pauses, timer,
                 rServed, cot, sent, exp>>

(***************************************************************************)
(* At most BATCH_SIZE tasks: responses = await Promise.all(all of them),   *)
(* then the handler returns the 200 response.                              *)
(***************************************************************************)
AllResolve ==
  /\ pc = "awaitAll"
  /\ AllDone(1..T)
  /\ responses' = FinalResponses(results)
  /\ response' = OkResponse(responses')
  /\ pc' = "returned"
  /\ UNCHANGED <<req, env, clients, taskVars, batchStart, pauses, timer,
                 rServed, cot, sent, exp>>

(***************************************************************************)
(* The 95 s timer fires and rejects timeoutPromise while the handler is    *)
(* still running.  Nothing awaits or races that promise, so no other state *)
(* changes.  The model lets it fire while a provider call is pending, the  *)
(* one wait of the handler that has no upper bound of its own.  (Once the  *)
(* handler has ended the timer can change nothing any more.)               *)
(***************************************************************************)
Ended == pc \in {"returned", "threw"}

DeadlineFires ==
  /\ timer = "armed"
  /\ ~Ended
  /\ \E t \in DOMAIN tstate : tstate[t] = "calling"
  /\ timer' = "fired"
  /\ UNCHANGED <<req, env, pc, clients, taskVars, batchStart, pauses,
                 responses, response, rServed, cot, sent, exp>>

Next ==
  \/ BodyUnparseable
  \/ RejectInvalid
  \/ AcceptAndFanOut
  \/ \E t \in 1..MaxTasks : CallSucceeds(t)
  \/ \E t \in 1..MaxTasks : CallFailsRetry(t)
  \/ \E t \in 1..MaxTasks : CallFailsFinal(t)
  \/ \E t \in 1..MaxTasks : RetryDelayElapses(t)
  \/ BatchResolvesPause
  \/ PauseElapses
  \/ BatchResolvesLast
  \/ AllResolve
  \/ DeadlineFires

Spec == Init /\ [][Next]_vars

(***************************************************************************)
(* The handler under the assumption that every provider call and every     *)
(* timer completes: a pending call returns or throws, a backoff timer and  *)
(* the 100 ms pause fire, and a continuation whose promise is settled      *)
(* runs.  The deadline timer may fire or not.  Requests have passed        *)
(* validation; up to MaxLiveTasks tasks are created, of which at most      *)
(* MaxLiveRouted reach a provider (the others are "Model not available").  *)
(***************************************************************************)
MaxLiveTasks == BATCH_SIZE + 2

MaxLiveRouted == 4

RoutedCount(r, e) ==
  Cardinality({t \in 1..Len(TaskArgs(r.models, r.n)) :
                 Route(TaskArgs(r.models, r.n)[t].modelId, e) # Unavailable})

LiveRequests ==
  {r \in [parses : {TRUE}, hasBinId : {TRUE}, hasMessages : {TRUE},
          hasModels : {TRUE}, models : ModelLists, n : (0 - 1)..MaxN] :
     /\ Len(r.models) >= 1
     /\ Len(r.models) * ArrayLength(r.n) <= MaxLiveTasks}

InitLive ==
  /\ req \in LiveRequests
  /\ env \in EnvChoices
  /\ RoutedCount(req, env) <= MaxLiveRouted
  /\ pc = "readBody"
  /\ clients = {}
  /\ tstate = <<>>
  /\ retryCount = <<>>
  /\ calls = <<>>
  /\ delays = <<>>
  /\ results = <<>>
  /\ batchStart = 0
  /\ pauses = 0
  /\ responses = <<>>
  /\ response = NoResponse
  /\ timer = "armed"
  /\ failures = 0
  /\ rServed = Idle
  /\ sent = NoSend
  /\ exp = NoExport
  /\ cot = NoCall

CallCompletes(t) == CallSucceeds(t) \/ CallFailsRetry(t) \/ CallFailsFinal(t)

NextLive ==
  \/ AcceptAndFanOut
  \/ \E t \in 1..MaxLiveTasks : CallSucceeds(t)
  \/ \E t \in 1..MaxLiveTasks : CallFailsRetry(t)
  \/ \E t \in 1..MaxLiveTasks : CallFailsFinal(t)
  \/ \E t \in 1..MaxLiveTasks : RetryDelayElapses(t)
  \/ BatchResolvesPause
  \/ PauseElapses
  \/ BatchResolvesLast
  \/ AllResolve
  \/ DeadlineFires

Fairness ==
  /\ WF_vars(AcceptAndFanOut)
  /\ \A t \in 1..MaxLiveTasks : WF_vars(CallCompletes(t))
  /\ \A t \in 1..MaxLiveTasks : WF_vars(RetryDelayElapses(t))
  /\ WF_vars(BatchResolvesPause)
  /\ WF_vars(PauseElapses)
  /\ WF_vars(BatchResolvesLast)
  /\ WF_vars(AllResolve)

SpecLive == InitLive /\ [][NextLive]_vars /\ Fairness

(***************************************************************************)
(* Routing on its own: one model identifier, every set of credentials.     *)
(***************************************************************************)
RouteModelIds ==
  {id_gpt4, id_o3_mini, id_o4_mini, id_claude3, id_deepseek_r1, id_grok4,
   id_kimi, id_gemini_pro, id_models_gemini_pro, id_unknown, id_gpt_gemini,
   id_claude_gemini, id_deepseek_gemini}

InitRoute ==
  /\ req \in {[parses |-> TRUE, hasBinId |-> TRUE, hasMessages |-> TRUE,
               hasModels |-> TRUE, models |-> <<id>>, n |-> 1] :
                 id \in RouteModelIds}
  /\ env \in SUBSET Providers
  /\ pc = "route"
  /\ clients = env
  /\ tstate = <<>>
  /\ retryCount = <<>>
  /\ calls = <<>>
  /\ delays = <<>>
  /\ results = <<>>
  /\ batchStart = 0
  /\ pauses = 0
  /\ responses = <<>>
  /\ response = NoResponse
  /\ timer = "armed"
  /\ failures = 0
  /\ rServed = Idle
  /\ sent = NoSend
  /\ exp = NoExport
  /\ cot = NoCall

ApplyRoute ==
  /\ pc = "route"
  /\ rServed' = Route(req.models[1], clients)
  /\ pc' = "routed"
  /\ UNCHANGED <<req, env, clients, taskVars, batchStart, pauses, responses,
                 response, timer, cot, sent, exp>>

NextRoute == ApplyRoute

SpecRoute == InitRoute /\ [][NextRoute]_vars

(***************************************************************************)
(* Chain-of-thought post-processing of one provider answer.  Texts are     *)
(* sequences of characters; the regular expressions of extractCOTContent   *)
(* are computed on them.                                                   *)
(***************************************************************************)
s_grok == <<"g","r","o","k">>
s_thinking_open == <<"<","t","h","i","n","k","i","n","g",">">>
s_thinking_close == <<"<","/","t","h","i","n","k","i","n","g",">">>
s_reasoning_open == <<"<","r","e","a","s","o","n","i","n","g",">">>
s_reasoning_close == <<"<","/","r","e","a","s","o","n","i","n","g",">">>
s_let_me_think == <<"L","e","t"," ","m","e"," ","t","h","i","n","k">>
s_i_need_to == <<"I"," ","n","e","e","d"," ","t","o">>
s_first == <<"F","i","r","s","t",",">>
s_the_answer == <<"T","h","e"," ","a","n","s","w","e","r">>
s_based_on == <<"B","a","s","e","d"," ","o","n">>
s_to_answer == <<"T","o"," ","a","n","s","w","e","r">>
s_blank_line == <<"\n","\n">>
cot_grok4 == <<"x","-","a","i","/","g","r","o","k","-","4">>
cot_gemini_pro == <<"g","e","m","i","n","i","-","2",".","5","-","p","r","o">>
cot_models_gemini_pro == <<"m","o","d","e","l","s","/","g","e","m","i","n","i","-","2",".","5",
    "-","p","r","o">>
cot_deepseek_r1 == <<"d","e","e","p","s","e","e","k","/","d","e","e","p","s","e","e","k",
    "-","r","1">>

id_grok3 == <<"x","-","a","i","/","g","r","o","k","-","3">>
id_gpt_gemini_pro == <<"g","p","t","-","g","e","m","i","n","i","-","2",".","5","-","p","r",
    "o">>
id_claude_gemini_pro == <<"c","l","a","u","d","e","-","g","e","m","i","n","i","-","2",".","5",
    "-","p","r","o">>
id_gemini_pro_grok == <<"g","e","m","i","n","i","-","2",".","5","-","p","r","o","-","g","r",
    "o","k">>

\* provider answers explored
raw_plain ==
  <<"P","a","r","i","s">>
raw_thinking ==
  <<"<","t","h","i","n","k","i","n","g",">","a","b","<","/","t","h","i",
    "n","k","i","n","g",">"," ","c","d">>
raw_thinking_twice ==
  <<"<","t","h","i","n","k","i","n","g",">","a","<","/","t","h","i","n",
    "k","i","n","g",">","<","t","h","i","n","k","i","n","g",">","b",
    "<","/","t","h","i","n","k","i","n","g",">","c">>
raw_thinking_only ==
  <<"<","t","h","i","n","k","i","n","g",">","a","b","c","d","e","f","g",
    "h","i","<","/","t","h","i","n","k","i","n","g",">">>
raw_thinking_empty ==
  <<"<","t","h","i","n","k","i","n","g",">","<","/","t","h","i","n","k",
    "i","n","g",">","x">>
raw_thinking_open ==
  <<"<","t","h","i","n","k","i","n","g",">","a","b"," ","c","d">>
raw_reasoning ==
  <<"<","r","e","a","s","o","n","i","n","g",">","s","t","e","p"," ","A",
    " ","s","t","e","p"," ","B","<","/","r","e","a","s","o","n","i",
    "n","g",">","A","n","s","w","e","r",":"," ","4","2">>
raw_reasoning_padded ==
  <<" ","\n","<","r","e","a","s","o","n","i","n","g",">","a","<","/","r",
    "e","a","s","o","n","i","n","g",">"," ","b"," ","<","/","r","e",
    "a","s","o","n","i","n","g",">"," ">>
raw_let_me_think ==
  <<"L","e","t"," ","m","e"," ","t","h","i","n","k"," ","a","\n","\n",
    "b">>
raw_let_me_think_twice ==
  <<"L","e","t"," ","m","e"," ","t","h","i","n","k"," ","a","\n","\n",
    "L","e","t"," ","m","e"," ","t","h","i","n","k"," ","b","\n","\n",
    "c">>
raw_i_need_to ==
  <<"I"," ","n","e","e","d"," ","t","o"," ","a","\n","\n"," ","b","\n",
    "\n","c">>
raw_first ==
  <<"F","i","r","s","t",","," ","a","\n","\n","b","\n","\n","T","h","e",
    " ","a","n","s","w","e","r"," ","c">>
raw_first_no_cue ==
  <<"F","i","r","s","t",","," ","a","\n","\n","b">>

RawContents ==
  {raw_plain, raw_thinking, raw_thinking_twice, raw_thinking_only,
   raw_thinking_empty, raw_thinking_open, raw_reasoning, raw_reasoning_padded,
   raw_let_me_think, raw_let_me_think_twice, raw_i_need_to, raw_first,
   raw_first_no_cue}

COT_MODELS ==
  {cot_grok4, cot_gemini_pro, cot_models_gemini_pro, cot_deepseek_r1}

\* COT_MODELS.some(cotModel => modelId.includes(cotModel))
isCOTModel(modelId) == \E cotModel \in COT_MODELS : includes(modelId, cotModel)

\* the characters String.prototype.trim removes, among those used here
Whitespace == {" ", "\n", "\t"}

\* the characters \w matches
WordChars ==
  {"a","b","c","d","e","f","g","h","i","j","k","l","m","n","o","p","q","r",
   "s","t","u","v","w","x","y","z","A","B","C","D","E","F","G","H","I","J",
   "K","L","M","N","O","P","Q","R","S","T","U","V","W","X","Y","Z","0","1",
   "2","3","4","5","6","7","8","9","_"}

RECURSIVE TrimStart(_)
TrimStart(s) ==
  IF s # <<>> /\ Head(s) \in Whitespace THEN TrimStart(Tail(s)) ELSE s

RECURSIVE TrimEnd(_)
TrimEnd(s) ==
  IF s # <<>> /\ s[Len(s)] \in Whitespace
    THEN TrimEnd(SubSeq(s, 1, Len(s) - 1)) ELSE s

\* the trim without its leading half
trim_endOnly(s) == TrimEnd(s)

\* String.prototype.trim
trim(s) == TrimEnd(TrimStart(s))

IsAt(s, p, i) ==
  i >= 1 /\ i + Len(p) - 1 <= Len(s) /\ SubSeq(s, i, i + Len(p) - 1) = p

\* the first position >= from at which p occurs in s, 0 if there is none
FirstAt(s, p, from) ==
  LET occ == {i \in from..Len(s) : IsAt(s, p, i)} IN
    IF occ = {} THEN 0 ELSE CHOOSE i \in occ : \A j \in occ : i <= j

\* content.match(/<tag>([\s\S]*?)<\/tag>/): the leftmost opening tag that
\* has a closing tag after it, and the first closing tag after it
TagMatch(content, open, close) ==
  LET o == FirstAt(content, open, 1)
      c == IF o = 0 THEN 0 ELSE FirstAt(content, close, o + Len(open))
  IN [found |-> c # 0, open |-> o, close |-> c]

\* reasoning = match[1]; mainContent = content.replace(regex, '').trim()
TagExtract(content, open, close) ==
  LET m == TagMatch(content, open, close) IN
    [reasoning |-> SubSeq(content, m.open + Len(open), m.close - 1),
     mainContent |-> trim(SubSeq(content, 1, m.open - 1)
                            \o SubSeq(content, m.close + Len(close),
                                      Len(content))),
     fullContent |-> content]

\* the lookaheads of the three gemini patterns
WordCue == {<<c>> : c \in WordChars}

AnswerCue == {s_the_answer, s_based_on, s_to_answer}

\* content.match(/^(lead[\s\S]*?)\n\n(?=cue)/): the length of match[1],
\* 0 if there is no match
LeadMatch(content, lead, cues) ==
  LET ends == {k \in Len(lead)..Len(content) :
                 /\ IsAt(content, s_blank_line, k + 1)
                 /\ \E cue \in cues : IsAt(content, cue, k + 3)} IN
    IF ~startsWith(content, lead) \/ ends = {} THEN 0
    ELSE CHOOSE k \in ends : \A j \in ends : k <= j

\* reasoning = match[1];
\* mainContent = content.substring(reasoning.length).trim()
LeadExtract(content, k) ==
  [reasoning |-> SubSeq(content, 1, k),
   mainContent |-> trim(SubSeq(content, k + 1, Len(content))),
   fullContent |-> content]

extractCOTContent(content, modelId) ==
  IF includes(modelId, s_grok)
       /\ TagMatch(content, s_thinking_open, s_thinking_close).found
    THEN TagExtract(content, s_thinking_open, s_thinking_close)
  ELSE IF includes(modelId, s_deepseek)
       /\ TagMatch(content, s_reasoning_open, s_reasoning_close).found
    THEN TagExtract(content, s_reasoning_open, s_reasoning_close)
  ELSE IF includes(modelId, s_gemini)
       /\ LeadMatch(content, s_let_me_think, WordCue) # 0
    THEN LeadExtract(content, LeadMatch(content, s_let_me_think, WordCue))
  ELSE IF includes(modelId, s_gemini)
       /\ LeadMatch(content, s_i_need_to, WordCue) # 0
    THEN LeadExtract(content, LeadMatch(content, s_i_need_to, WordCue))
  ELSE IF includes(modelId, s_gemini)
       /\ LeadMatch(content, s_first, AnswerCue) # 0
    THEN LeadExtract(content, LeadMatch(content, s_first, AnswerCue))
  ELSE [reasoning |-> <<>>, mainContent |-> content, fullContent |-> content]

\* Math.ceil(text.length / 4)
estimateTokens(text) == (Len(text) + 3) \div 4

Max(a, b) == IF a > b THEN a ELSE b

\* a string field the code did not set
NotSet == <<"<absent>">>

\* usage as a provider reports it; -1 is a counter that is not there
NoUsage ==
  [present |-> FALSE, prompt_tokens |-> 0 - 1, completion_tokens |-> 0 - 1,
   total_tokens |-> 0 - 1]

\* Math.max(1, reported - reasoningTokens)
AdjustTokens(reported, reasoningTokens) == Max(1, reported - reasoningTokens)

\* responseData.reasoningTokens of the chat-completion branches: set inside
\* if (completion.usage && cotData.reasoning)
ReasoningTokensField(usagePresent, reasoning) ==
  IF usagePresent /\ reasoning # <<>>
    THEN estimateTokens(reasoning) ELSE 0 - 1

\* responseData of the OpenAI branch and of the OpenRouter branch (the
\* same statements in both)
ChatCompletionData(modelId, rawContent, usage) ==
  LET cotData == extractCOTContent(rawContent, modelId)
      reasoningTokens == estimateTokens(cotData.reasoning)
  IN IF ~isCOTModel(modelId)
       THEN [model |-> modelId, content |-> rawContent, reasoning |-> NotSet,
             fullContent |-> NotSet, isCOT |-> FALSE, usage |-> usage,
             reasoningTokens |-> 0 - 1]
       ELSE [model |-> modelId, content |-> cotData.mainContent,
             reasoning |-> cotData.reasoning,
             fullContent |-> cotData.fullContent, isCOT |-> TRUE,
             usage |->
               IF usage.present /\ cotData.reasoning # <<>>
                 THEN [usage EXCEPT
                         !.completion_tokens =
                            AdjustTokens(@, reasoningTokens),
                         !.total_tokens = AdjustTokens(@, reasoningTokens)]
                 ELSE usage,
             reasoningTokens |->
               ReasoningTokensField(usage.present, cotData.reasoning)]

\* the record of the Anthropic branch: no COT processing; usage rebuilt
\* from input_tokens and output_tokens
AnthropicData(modelId, rawContent, usage) ==
  [model |-> modelId, content |-> rawContent, reasoning |-> NotSet,
   fullContent |-> NotSet, isCOT |-> FALSE,
   usage |-> [present |-> TRUE, prompt_tokens |-> usage.prompt_tokens,
              completion_tokens |-> usage.completion_tokens,
              total_tokens |-> usage.prompt_tokens + usage.completion_tokens],
   reasoningTokens |-> 0 - 1]

\* responseData of the Gemini branch: usage is estimated
GeminiData(modelId, rawContent, currentPrompt) ==
  LET cotData == extractCOTContent(rawContent, modelId)
      estimated == [present |-> TRUE, prompt_tokens |-> 0 - 1,
                    completion_tokens |-> 0 - 1,
                    total_tokens |->
                      estimateTokens(currentPrompt \o rawContent)]
  IN IF ~isCOTModel(modelId)
       THEN [model |-> modelId, content |-> rawContent, reasoning |-> NotSet,
             fullContent |-> NotSet, isCOT |-> FALSE, usage |-> estimated,
             reasoningTokens |-> 0 - 1]
       ELSE [model |-> modelId, content |-> cotData.mainContent,
             reasoning |-> cotData.reasoning,
             fullContent |-> cotData.fullContent, isCOT |-> TRUE,
             usage |->
               IF cotData.reasoning # <<>>
                 THEN [present |-> TRUE,
                       prompt_tokens |-> estimateTokens(currentPrompt),
                       completion_tokens |->
                         estimateTokens(cotData.mainContent),
                       total_tokens |->
                         estimateTokens(currentPrompt)
                           + estimateTokens(cotData.mainContent)]
                 ELSE estimated,
             reasoningTokens |->
               IF cotData.reasoning # <<>>
                 THEN estimateTokens(cotData.reasoning) ELSE 0 - 1]

\* the branch of generateSingleResponse that built the record
ResponseData(provider, modelId, rawContent, usage, currentPrompt) ==
  IF provider = "anthropic" THEN AnthropicData(modelId, rawContent, usage)
  ELSE IF provider = "google"
    THEN GeminiData(modelId, rawContent, currentPrompt)
  ELSE ChatCompletionData(modelId, rawContent, usage)

(***************************************************************************)
(* One successful provider call, every provider configured: the answer is  *)
(* turned into its record, and extractCOTContent is applied to the answer  *)
(* and then to the mainContent it produced.                                *)
(***************************************************************************)
CotModelIds ==
  {id_gpt4, id_claude3, id_kimi, id_grok3, id_grok4, id_deepseek_r1,
   id_gemini_pro, id_models_gemini_pro, id_gpt_gemini_pro,
   id_claude_gemini_pro, id_gemini_pro_grok}

ReportedUsages ==
  {NoUsage} \cup
  {[present |-> TRUE, prompt_tokens |-> 10, completion_tokens |-> c,
    total_tokens |-> 10 + c] : c \in {1, 3, 50}}

Prompts == {<<>>, <<"h","i">>}

NoExtract == [reasoning |-> NotSet, mainContent |-> NotSet,
              fullContent |-> NotSet]

NoData ==
  [model |-> NotSet, content |-> NotSet, reasoning |-> NotSet,
   fullContent |-> NotSet, isCOT |-> FALSE, usage |-> NoUsage,
   reasoningTokens |-> 0 - 1]

Answers ==
  {a \in [phase : {"call"}, model : CotModelIds, raw : RawContents,
          usage : ReportedUsages, prompt : Prompts, record : {NoData},
          first : {NoExtract}, second : {NoExtract}] :
     /\ Route(a.model, Providers) = "anthropic" => a.usage.present
     /\ Route(a.model, Providers) = "google" => a.usage = NoUsage
     /\ Route(a.model, Providers) # "google" => a.prompt = <<>>}

InitCOT ==
  /\ cot \in Answers
  /\ req = [parses |-> TRUE, hasBinId |-> TRUE, hasMessages |-> TRUE,
            hasModels |-> TRUE, models |-> <<cot.model>>, n |-> 1]
  /\ env = Providers
  /\ pc = "single"
  /\ clients = Providers
  /\ tstate = <<>>
  /\ retryCount = <<>>
  /\ calls = <<>>
  /\ delays = <<>>
  /\ results = <<>>
  /\ batchStart = 0
  /\ pauses = 0
  /\ responses = <<>>
  /\ response = NoResponse
  /\ timer = "armed"
  /\ failures = 0
  /\ rServed = Idle
  /\ sent = NoSend
  /\ exp = NoExport

\* the provider call returns: the branch chosen by the routing builds
\* the record
ProviderReturns ==
  /\ cot.phase = "call"
  /\ cot' = [cot EXCEPT
       !.phase = "record",
       !.record = ResponseData(Route(cot.model, clients), cot.model, cot.raw,
                               cot.usage, cot.prompt)]
  /\ UNCHANGED <<req, env, pc, clients, taskVars, batchStart, pauses,
                 responses, response, timer, rServed, sent, exp>>

\* extractCOTContent(rawContent, modelId)
ExtractFirst ==
  /\ cot.phase = "record"
  /\ cot' = [cot EXCEPT !.phase = "first",
                        !.first = extractCOTContent(cot.raw, cot.model)]
  /\ UNCHANGED <<req, env, pc, clients, taskVars, batchStart, pauses,
                 responses, response, timer, rServed, sent, exp>>

\* extractCOTContent(mainContent, modelId) on the first extraction's result
ExtractAgain ==
  /\ cot.phase = "first"
  /\ cot' = [cot EXCEPT
       !.phase = "second",
       !.second = extractCOTContent(cot.first.mainContent, cot.model)]
  /\ UNCHANGED <<req, env, pc, clients, taskVars, batchStart, pauses,
                 responses, response, timer, rServed, sent, exp>>

NextCOT == ProviderReturns \/ ExtractFirst \/ ExtractAgain

SpecCOT == InitCOT /\ [][NextCOT]_vars

(***************************************************************************)
(* The batch loop on its own: valid requests of up to MaxSchedTasks tasks, *)
(* every credential present and every provider call succeeding, so that    *)
(* three batches are reached.                                              *)
(***************************************************************************)
SchedRequests ==
  {r \in [parses : {TRUE}, hasBinId : {TRUE}, hasMessages : {TRUE},
          hasModels : {TRUE}, models : ModelLists, n : 0..MaxSchedTasks] :
     /\ Len(r.models) >= 1
     /\ Len(r.models) * ArrayLength(r.n) <= MaxSchedTasks}

InitSched ==
  /\ req \in SchedRequests
  /\ env = Providers
  /\ pc = "readBody"
  /\ clients = {}
  /\ tstate = <<>>
  /\ retryCount = <<>>
  /\ calls = <<>>
  /\ delays = <<>>
  /\ results = <<>>
  /\ batchStart = 0
  /\ pauses = 0
  /\ responses = <<>>
  /\ response = NoResponse
  /\ timer = "armed"
  /\ failures = 0
  /\ rServed = Idle
  /\ sent = NoSend
  /\ exp = NoExport
  /\ cot = NoCall

NextSched ==
  \/ AcceptAndFanOut
  \/ \E t \in 1..MaxSchedTasks : CallSucceeds(t)
  \/ BatchResolvesPause
  \/ PauseElapses
  \/ BatchResolvesLast
  \/ AllResolve

SpecSched == InitSched /\ [][NextSched]_vars

(***************************************************************************)
(* What one call hands to its provider.  Temperatures are in tenths; a     *)
(* field that is undefined, or a key that is not set, is Undefined.  The   *)
(* caller's messages are objects in a heap, the arrays hold references.    *)
(***************************************************************************)
Undefined == 0 - 1

\* v || d
OrDefault(v, d) == IF v = Undefined \/ v = 0 THEN d ELSE v

s_o4_mini == s_o4 \o <<"-","m","i","n","i">>

id_o4 == s_o4
id_gpt_o3 == s_gpt \o <<"-">> \o s_o3

\* the reasoning tier recognised by its o3 prefix alone
isO3Model_prefixOnly(modelId) == startsWith(modelId, s_o3)

\* modelId.includes('o3') || modelId.includes('o4-mini')
isO3Model(modelId) == includes(modelId, s_o3) \/ includes(modelId, s_o4_mini)

Deref(heap, refs) == [i \in 1..Len(refs) |-> heap[refs[i]]]

\* [{ role: 'system', content: systemPrompt }, ...messages]
SystemFirst(systemPrompt, msgs) ==
  <<[role |-> "system", content |-> systemPrompt]>> \o msgs

\* params of openai.chat.completions.create
OpenAIParams(modelId, r) ==
  IF isO3Model(modelId)
    THEN [model |-> modelId, n |-> 1,
          temperature |-> Undefined, max_tokens |-> Undefined,
          max_completion_tokens |->
            OrDefault(r.max_completion_tokens, OrDefault(r.maxTokens, 1000))]
    ELSE [model |-> modelId, n |-> 1,
          temperature |-> OrDefault(r.temperature, 7),
          max_tokens |-> OrDefault(r.maxTokens, 1000),
          max_completion_tokens |-> Undefined]

\* the argument of anthropic.messages.create and of
\* openrouter.chat.completions.create: temperature and max_tokens, no n
PlainParams(modelId, r) ==
  [model |-> modelId, n |-> Undefined,
   temperature |-> OrDefault(r.temperature, 7),
   max_tokens |-> OrDefault(r.maxTokens, 1000),
   max_completion_tokens |-> Undefined]

\* messages.map(m => ({ role: m.role === 'user' ? 'user' : 'assistant', ... }))
AnthropicMessages(msgs) ==
  [i \in 1..Len(msgs) |->
     [role |-> IF msgs[i].role = "user" THEN "user" ELSE "assistant",
      content |-> msgs[i].content]]

\* the conversion writing the merged text into the caller's first message
GeminiConvert_inPlace(heap, messages, systemPrompt) ==
  LET k == Len(messages)
      merge == systemPrompt # <<>> /\ k > 0 /\ heap[messages[1]].role = "user"
      heap1 == IF merge
                 THEN [heap EXCEPT ![messages[1]].content =
                         systemPrompt \o s_blank_line \o @]
                 ELSE heap
      msgs == Deref(heap1, messages)
      lastUser == k > 0 /\ msgs[k].role = "user"
  IN [heap |-> heap1,
      combined |-> messages,
      history |-> [i \in 1..(IF lastUser THEN k - 1 ELSE k) |->
                     [role |-> IF msgs[i].role = "user" THEN "user" ELSE "model",
                      text |-> msgs[i].content]],
      currentPrompt |-> IF lastUser THEN msgs[k].content ELSE <<>>]

\* combinedMessages = [...messages]; its first slot is replaced by a new
\* object holding systemPrompt, a blank line and the content; forEach sends
\* the last message to currentPrompt when its role is user and every other
\* one to history
GeminiConvert(heap, messages, systemPrompt) ==
  LET k == Len(messages)
      merge == systemPrompt # <<>> /\ k > 0 /\ heap[messages[1]].role = "user"
      heap1 == IF merge
                 THEN Append(heap,
                        [role |-> heap[messages[1]].role,
                         content |-> systemPrompt \o s_blank_line
                                       \o heap[messages[1]].content])
                 ELSE heap
      combined == IF merge THEN [messages EXCEPT ![1] = Len(heap) + 1]
                           ELSE messages
      msgs == Deref(heap1, combined)
      lastUser == k > 0 /\ msgs[k].role = "user"
  IN [heap |-> heap1,
      combined |-> combined,
      history |-> [i \in 1..(IF lastUser THEN k - 1 ELSE k) |->
                     [role |-> IF msgs[i].role = "user" THEN "user" ELSE "model",
                      text |-> msgs[i].content]],
      currentPrompt |-> IF lastUser THEN msgs[k].content ELSE <<>>]

MaxMessages == 3

MessageTexts == << <<"a">>, <<"b">>, <<"c">>, <<"d">> >>

MessageRoles == {"user", "assistant", "system"}

\* message lists: any roles, the i-th message with the i-th text
MessageLists ==
  UNION {{[i \in 1..k |-> [role |-> f[i], content |-> MessageTexts[i]]] :
            f \in [1..k -> MessageRoles]} : k \in 0..MaxMessages}

BuildModelIds ==
  {id_gpt4, id_o3_mini, id_o4_mini, id_o4, id_gpt_o3, id_claude3,
   id_deepseek_r1, id_gemini_pro}

NoParams == [model |-> <<>>, n |-> Undefined, temperature |-> Undefined,
             max_tokens |-> Undefined, max_completion_tokens |-> Undefined]

BuildInputs ==
  {[phase |-> "build", model |-> id, temperature |-> t, maxTokens |-> mt,
    max_completion_tokens |-> mct, systemPrompt |-> sp,
    input |-> msgs, heap |-> msgs, messages |-> [i \in 1..Len(msgs) |-> i],
    params |-> NoParams, payload |-> <<>>, combined |-> <<>>,
    history |-> <<>>, currentPrompt |-> <<>>] :
     id \in BuildModelIds, t \in {Undefined, 0, 5}, mt \in {Undefined, 500},
     mct \in {Undefined, 200}, sp \in {<<>>, <<"S">>}, msgs \in MessageLists}

InitBuild ==
  /\ sent \in BuildInputs
  /\ req = [parses |-> TRUE, hasBinId |-> TRUE, hasMessages |-> TRUE,
            hasModels |-> TRUE, models |-> <<sent.model>>, n |-> 1]
  /\ env = Providers
  /\ pc = "single"
  /\ clients = Providers
  /\ tstate = <<>>
  /\ retryCount = <<>>
  /\ calls = <<>>
  /\ delays = <<>>
  /\ results = <<>>
  /\ batchStart = 0
  /\ pauses = 0
  /\ responses = <<>>
  /\ response = NoResponse
  /\ timer = "armed"
  /\ failures = 0
  /\ rServed = Idle
  /\ cot = NoCall
  /\ exp = NoExport

BuildUnchanged ==
  UNCHANGED <<req, env, pc, clients, taskVars, batchStart, pauses, responses,
              response, timer, rServed, cot, exp>>

\* the OpenAI branch up to openai.chat.completions.create(params)
BuildOpenAI ==
  /\ sent.phase = "build"
  /\ Route(sent.model, clients) = "openai"
  /\ sent' = [sent EXCEPT
       !.phase = "openai",
       !.params = OpenAIParams(sent.model, sent),
       !.payload = SystemFirst(sent.systemPrompt,
                               Deref(sent.heap, sent.messages))]
  /\ BuildUnchanged

\* the Anthropic branch up to anthropic.messages.create
BuildAnthropic ==
  /\ sent.phase = "build"
  /\ Route(sent.model, clients) = "anthropic"
  /\ sent' = [sent EXCEPT
       !.phase = "anthropic",
       !.params = PlainParams(sent.model, sent),
       !.payload = AnthropicMessages(Deref(sent.heap, sent.messages))]
  /\ BuildUnchanged

\* the OpenRouter branch up to openrouter.chat.completions.create
BuildOpenRouter ==
  /\ sent.phase = "build"
  /\ Route(sent.model, clients) = "openrouter"
  /\ sent' = [sent EXCEPT
       !.phase = "openrouter",
       !.params = PlainParams(sent.model, sent),
       !.payload = SystemFirst(sent.systemPrompt,
                               Deref(sent.heap, sent.messages))]
  /\ BuildUnchanged

\* the Gemini branch up to chat.sendMessage(currentPrompt)
BuildGemini ==
  /\ sent.phase = "build"
  /\ Route(sent.model, clients) = "google"
  /\ LET g == GeminiConvert(sent.heap, sent.messages, sent.systemPrompt) IN
       sent' = [sent EXCEPT
         !.phase = "google",
         !.heap = g.heap,
         !.combined = g.combined,
         !.history = g.history,
         !.currentPrompt = g.currentPrompt]
  /\ BuildUnchanged

NextBuild == BuildOpenAI \/ BuildAnthropic \/ BuildOpenRouter \/ BuildGemini

SpecBuild == InitBuild /\ [][NextBuild]_vars

(***************************************************************************)
(* The export endpoint (functions/api/export.js).  The key-value stores    *)
(* are the environment: SESSIONS and USERS hold a few fixed entries, what  *)
(* BINS.get, CONVERSATIONS.list and CONVERSATIONS.get return is chosen at  *)
(* each call.                                                              *)
(***************************************************************************)
s_session_eq == <<"s","e","s","s","i","o","n","=">>

tok_alice == <<"t","a">>
tok_bob == <<"t","b">>
tok_carol == <<"t","c">>
tok_ghost == <<"t","g">>
tok_stale == <<"t","x">>

NoTeam == "no team"

\* cookie?.match(/session=([^;]+)/)?.[1]: the characters after the first
\* "session=" that is followed by a character other than ';', up to the
\* next ';' or the end
CookieToken(cookie) ==
  IF cookie = NotSet THEN NotSet
  ELSE
    LET starts == {i \in 1..Len(cookie) :
                     /\ IsAt(cookie, s_session_eq, i)
                     /\ i + Len(s_session_eq) <= Len(cookie)
                     /\ cookie[i + Len(s_session_eq)] # ";"}
    IN IF starts = {} THEN NotSet
       ELSE
         LET i == CHOOSE a \in starts : \A b \in starts : a <= b
             from == i + Len(s_session_eq)
             stops == {j \in from..Len(cookie) : cookie[j] = ";"}
             to == IF stops = {} THEN Len(cookie)
                   ELSE (CHOOSE a \in stops : \A b \in stops : a <= b) - 1
         IN SubSeq(cookie, from, to)

\* request.headers.get('X-Session-Token'), else the session cookie
SessionToken(header, cookie) ==
  IF header # NotSet /\ header # <<>> THEN header ELSE CookieToken(cookie)

\* env.SESSIONS.get(`session:${sessionToken}`, 'json'): the session's email
SESSIONS(token) ==
  IF token = tok_alice THEN "alice"
  ELSE IF token = tok_bob THEN "bob"
  ELSE IF token = tok_carol THEN "carol"
  ELSE IF token = tok_ghost THEN "ghost"
  ELSE Absent

NoUser == [found |-> FALSE, email |-> Absent, teamId |-> NoTeam]

\* env.USERS.get(`user:${session.email}`, 'json')
USERS(email) ==
  IF email = "alice" THEN [found |-> TRUE, email |-> "alice", teamId |-> "A"]
  ELSE IF email = "bob" THEN [found |-> TRUE, email |-> "bob", teamId |-> NoTeam]
  ELSE IF email = "carol" THEN [found |-> TRUE, email |-> "carol", teamId |-> "B"]
  ELSE NoUser

NoBin == [found |-> FALSE, visibility |-> Absent, createdBy |-> Absent,
          teamId |-> NoTeam, hasName |-> FALSE]

\* what env.BINS.get can return: null or a bin record
BinResults ==
  {NoBin} \cup
  [found : {TRUE}, visibility : {"personal", "team", "public"},
   createdBy : {"alice", "bob"}, teamId : {NoTeam, "A", "B"},
   hasName : BOOLEAN]

ExportHeaders == {NotSet, <<>>, tok_alice, tok_stale}

ExportCookies ==
  {NotSet,
   s_session_eq \o tok_bob,
   <<"a","=","b",";"," ">> \o s_session_eq \o tok_carol \o <<";"," ","d","=","e">>,
   <<"x">> \o s_session_eq \o tok_ghost,
   s_session_eq \o <<";">>}

ExportBinIds == {NotSet, <<>>, <<"b","1">>}

MaxConversations == 2

\* what env.CONVERSATIONS.list can return: the keys under the prefix
KeyLists == {[i \in 1..k |-> i] : k \in 0..MaxConversations}

NoBody == <<"<no body>">>

ExportRequests ==
  {[phase |-> "start", header |-> h, cookie |-> c, binId |-> b,
    token |-> NotSet, session |-> Absent, user |-> NoUser, bin |-> NoBin,
    listed |-> FALSE, keys |-> <<>>, reads |-> <<>>, lines |-> <<>>,
    status |-> 0, body |-> NoBody] :
     h \in ExportHeaders, c \in ExportCookies, b \in ExportBinIds}

InitExport ==
  /\ exp \in ExportRequests
  /\ req = UnparseableRequest
  /\ env = {}
  /\ pc = "export"
  /\ clients = {}
  /\ tstate = <<>>
  /\ retryCount = <<>>
  /\ calls = <<>>
  /\ delays = <<>>
  /\ results = <<>>
  /\ batchStart = 0
  /\ pauses = 0
  /\ responses = <<>>
  /\ response = NoResponse
  /\ timer = "armed"
  /\ failures = 0
  /\ rServed = Idle
  /\ cot = NoCall
  /\ sent = NoSend

ExportUnchanged ==
  UNCHANGED <<req, env, pc, clients, taskVars, batchStart, pauses, responses,
              response, timer, rServed, cot, sent>>

\* new Response(JSON.stringify({ error }), { status })
ErrorResponse(e, status) ==
  [e EXCEPT !.phase = "returned", !.status = status]

\* onRequestGet up to its first await: the binId test, then authenticate
\* up to env.SESSIONS.get
ExportStart ==
  /\ exp.phase = "start"
  /\ exp' =
       IF exp.binId = NotSet \/ exp.binId = <<>>
         THEN ErrorResponse(exp, 400)
       ELSE IF SessionToken(exp.header, exp.cookie) \in {NotSet, <<>>}
         THEN ErrorResponse(exp, 401)
       ELSE [exp EXCEPT !.phase = "session",
                        !.token = SessionToken(exp.header, exp.cookie)]
  /\ ExportUnchanged

\* env.SESSIONS.get resolves
SessionFetched ==
  /\ exp.phase = "session"
  /\ exp' =
       IF SESSIONS(exp.token) = Absent
         THEN ErrorResponse(exp, 401)
         ELSE [exp EXCEPT !.phase = "user", !.session = SESSIONS(exp.token)]
  /\ ExportUnchanged

\* env.USERS.get resolves; authenticate returns; if (user.teamId) the
\* team-prefixed key is read first
UserFetched ==
  /\ exp.phase = "user"
  /\ exp' =
       IF ~USERS(exp.session).found
         THEN ErrorResponse(exp, 401)
         ELSE [exp EXCEPT
                 !.phase = IF USERS(exp.session).teamId # NoTeam
                             THEN "binTeam" ELSE "binLegacy",
                 !.user = USERS(exp.session)]
  /\ ExportUnchanged

\* the two permission tests passed without a check of the team
AfterBinFound_noTeamTest(e, b) ==
  IF b.visibility = "personal" /\ b.createdBy # e.user.email
    THEN ErrorResponse([e EXCEPT !.bin = b], 403)
  ELSE [e EXCEPT !.phase = "list", !.bin = b]

\* the permission tests on the bin that was found, up to
\* env.CONVERSATIONS.list
AfterBinFound(e, b) ==
  IF b.visibility = "personal" /\ b.createdBy # e.user.email
    THEN ErrorResponse([e EXCEPT !.bin = b], 403)
  ELSE IF b.visibility = "team" /\ b.teamId # e.user.teamId
    THEN ErrorResponse([e EXCEPT !.bin = b], 403)
  ELSE [e EXCEPT !.phase = "list", !.bin = b]

\* env.BINS.get(`bin:${user.teamId}:${binId}`) resolves
TeamBinFetched ==
  /\ exp.phase = "binTeam"
  /\ \E b \in BinResults :
       exp' = IF b.found THEN AfterBinFound(exp, b)
                         ELSE [exp EXCEPT !.phase = "binLegacy"]
  /\ ExportUnchanged

\* env.BINS.get(binId) resolves
LegacyBinFetched ==
  /\ exp.phase = "binLegacy"
  /\ \E b \in BinResults :
       exp' = IF b.found THEN AfterBinFound(exp, b)
                         ELSE ErrorResponse(exp, 404)
  /\ ExportUnchanged

\* the filename and the Response after the loop; binData.name.replace
\* throws when the bin has no name, and the catch block answers 500
ExportResponse(e) ==
  IF e.bin.hasName
    THEN [e EXCEPT !.phase = "returned", !.status = 200, !.body = e.lines]
    ELSE [e EXCEPT !.phase = "returned", !.status = 500]

\* env.CONVERSATIONS.list resolves
ConversationsListed ==
  /\ exp.phase = "list"
  /\ \E ks \in KeyLists :
       exp' = IF ks = <<>>
                THEN ExportResponse([exp EXCEPT !.listed = TRUE])
                ELSE [exp EXCEPT !.phase = "read", !.listed = TRUE,
                                 !.keys = ks]
  /\ ExportUnchanged

\* env.CONVERSATIONS.get(key.name) resolves, with the conversation or null
ConversationRead ==
  /\ exp.phase = "read"
  /\ \E found \in BOOLEAN :
       LET key == exp.keys[Len(exp.reads) + 1]
           e1 == [exp EXCEPT
                    !.reads = Append(@, key),
                    !.lines = IF found THEN Append(@, key) ELSE @]
       IN exp' = IF Len(e1.reads) = Len(e1.keys)
                   THEN ExportResponse(e1) ELSE e1
  /\ ExportUnchanged

NextExport ==
  \/ ExportStart
  \/ SessionFetched
  \/ UserFetched
  \/ TeamBinFetched
  \/ LegacyBinFetched
  \/ ConversationsListed
  \/ ConversationRead

SpecExport == InitExport /\ [][NextExport]_vars

(***************************************************************************)
(* Properties.                                                             *)
(***************************************************************************)
Validated == req.parses /\ Len(req.models) >= 1 /\ req.hasBinId
               /\ req.hasMessages /\ req.hasModels /\ req.n >= 0

ReqM == Len(req.models)

ReqN == IF req.n = 0 THEN 1 ELSE req.n

ChunkOf(t) == ((t - 1) \div 6) + 1

IsExhausted(r) == r.error # Absent /\ r.error # "Model not available"
                    /\ r.model # SystemRecord.model

\* C1: a validated request with M models and N completions per model is
\* answered with exactly M*N records, the record at position (m-1)*N + i
\* being the one of the m-th model and the i-th completion, whatever the
\* order in which the tasks finished and whichever of them failed.
C1_ModelMajorOrder ==
  (pc = "returned" /\ Validated) =>
     /\ Len(response.responses) = ReqM * ReqN
     /\ \A m \in 1..ReqM : \A i \in 1..ReqN :
          LET r == response.responses[(m - 1) * ReqN + i] IN
            /\ r.model = req.models[m]
            /\ r.completionIndex # 0 => r.completionIndex = i
            /\ r.totalCompletions # 0 => r.totalCompletions = ReqN

\* C1 witness: a request for two different models, at least two
\* completions each, has returned with both a success and an
\* exhausted-retry error among its records.
C1_Witness ==
  /\ pc = "returned"
  /\ Validated
  /\ ReqM = 2 /\ ReqN >= 2
  /\ req.models[1] # req.models[2]
  /\ \E k \in 1..Len(response.responses) :
       IsExhausted(response.responses[k])
  /\ \E k \in 1..Len(response.responses) :
       response.responses[k].content # Absent

\* C2: with more than 6 tasks, no task of a later chunk has issued a
\* provider call while a task of an earlier chunk is unresolved or before
\* the pauses that precede its chunk have elapsed.
C2_ChunksSequential ==
  \A t \in DOMAIN calls :
    (Len(calls) > 6 /\ calls[t] >= 1) =>
       /\ \A u \in DOMAIN tstate : ChunkOf(u) < ChunkOf(t) => tstate[u] = "done"
       /\ pauses >= ChunkOf(t) - 1

\* C3: at most 6 call tasks are started and unresolved (in flight against a
\* provider or waiting in a retry delay) at the same time.
C3_PeakConcurrency ==
  Cardinality({t \in DOMAIN tstate : tstate[t] \in {"calling", "delay"}}) <= 6

\* C4: no task makes a 5th provider call, and a task that ends in an
\* exhausted-retry error record has made exactly 4 calls, with retry counts
\* 0..3 and three delays; its message ends with the attempt count 4 and its
\* errorDetails.attempts is 4.
C4_RetryBound ==
  \A t \in DOMAIN tstate :
    /\ calls[t] <= 4
    /\ (tstate[t] = "done" /\ IsExhausted(results[t])) =>
         /\ calls[t] = 4
         /\ retryCount[t] = 3
         /\ Len(delays[t]) = 3
         /\ results[t].errorAfter = 4
         /\ results[t].detailsAttempts = 4
    /\ (tstate[t] = "done" /\ Len(delays[t]) = 3
          /\ results[t].content = Absent) => IsExhausted(results[t])

\* C4 witness: some task has failed on all of its attempts and is done.
C4_Witness ==
  \E t \in DOMAIN tstate :
    tstate[t] = "done" /\ IsExhausted(results[t]) /\ failures = 4

\* C5: if the 95 s timer fired while the scheduler of a validated request
\* was still running, the caller gets a timeout failure, not the records.
C5_DeadlineRaced ==
  (Ended /\ Validated /\ timer = "fired") =>
     /\ response.status # 200
     /\ response.responses = <<>>

\* C6: a validated request never ends in a thrown fault or a top-level
\* error: it ends with status 200 and one record per task, whichever tasks
\* failed.
C6_FailuresContained ==
  Validated =>
    /\ pc # "threw"
    /\ pc = "returned" =>
         /\ response.status = 200
         /\ response.error = Absent
         /\ Len(response.responses) = Len(tstate)
         /\ \A t \in DOMAIN tstate : response.responses[t] = results[t]

\* C6 witness: a request has returned although every one of its tasks
\* failed, one of them by exhausted retries and one by routing.
C6_Witness ==
  /\ pc = "returned"
  /\ Validated
  /\ \A k \in 1..Len(response.responses) :
       response.responses[k].error # Absent
  /\ \E k \in 1..Len(response.responses) :
       IsExhausted(response.responses[k])
  /\ \E k \in 1..Len(response.responses) :
       response.responses[k].error = "Model not available"

\* C7: a request whose body fails to parse ends with the handler returning
\* status 500; the handler does not throw.
C7_ParseFailureGives500 ==
  (~req.parses /\ pc # "readBody") =>
     pc = "returned" /\ response.status = 500

\* C8: a parsed request without binId, without messages, or with missing
\* or empty models constructs no client, issues no provider call and is
\* answered with status 400 and error "Invalid request".
C8_InvalidRequest ==
  (req.parses /\ pc \in {"readBody", "awaitBatch", "awaitAll", "pause",
                         "returned", "threw"}
     /\ (~req.hasBinId \/ ~req.hasMessages \/ ~req.hasModels
           \/ Len(req.models) = 0)) =>
    /\ clients = {}
    /\ \A t \in DOMAIN calls : calls[t] = 0
    /\ pc \in {"readBody", "returned"}
    /\ pc = "returned" =>
         response = [status |-> 400, error |-> "Invalid request",
                     responses |-> <<>>]

\* C8 witness: a request with an empty models array has been answered
\* while every provider key was configured.
C8_Witness ==
  /\ pc = "returned"
  /\ req.parses /\ req.hasBinId /\ req.hasMessages /\ req.hasModels
  /\ Len(req.models) = 0
  /\ env = Providers

MatchesNoRule(id) ==
  /\ ~startsWith(id, s_gpt) /\ ~startsWith(id, s_o3) /\ ~startsWith(id, s_o4)
  /\ ~startsWith(id, s_claude)
  /\ ~startsWith(id, s_deepseek) /\ ~startsWith(id, s_xai_grok)
  /\ ~startsWith(id, s_moonshotai)
  /\ ~includes(id, s_gemini)

\* C9: a task whose model identifier matches no routing rule is resolved at
\* once to {model, error: "Model not available"}: no provider call, no
\* retry, no delay.
C9_UnmatchedImmediate ==
  (Validated /\ pc \in {"awaitBatch", "awaitAll", "pause", "returned"}) =>
    \A m \in 1..Len(req.models) : \A i \in 1..ReqN :
      LET t == (m - 1) * ReqN + i IN
        MatchesNoRule(req.models[m]) =>
          /\ t \in DOMAIN tstate
          /\ tstate[t] = "done"
          /\ results[t].model = req.models[m]
          /\ results[t].error = "Model not available"
          /\ results[t].content = Absent
          /\ results[t].completionIndex = 0
          /\ calls[t] = 0
          /\ retryCount[t] = 0
          /\ delays[t] = <<>>

\* C9 witness: an unmatched model sits beside a routed one that is still
\* calling, with every provider configured.
C9_Witness ==
  /\ env = Providers
  /\ \E t \in DOMAIN tstate : MatchesNoRule(Tasks[t].modelId)
                                /\ tstate[t] = "done"
  /\ \E t \in DOMAIN tstate : tstate[t] = "calling"

FirstMatchingRule(id) ==
  IF startsWith(id, s_gpt) \/ startsWith(id, s_o3) \/ startsWith(id, s_o4)
    THEN "openai"
  ELSE IF startsWith(id, s_claude) THEN "anthropic"
  ELSE IF startsWith(id, s_deepseek) \/ startsWith(id, s_xai_grok)
            \/ startsWith(id, s_moonshotai)
    THEN "openrouter"
  ELSE IF includes(id, s_gemini) THEN "google"
  ELSE "none"

\* C10: a model is served by the provider of the first rule its identifier
\* matches if that provider's credential is set, and is "Model not
\* available" otherwise; it is never served by a lower-priority rule.
C10_FirstMatchWins ==
  (pc = "routed") =>
     rServed = IF FirstMatchingRule(req.models[1]) \in env
                 THEN FirstMatchingRule(req.models[1]) ELSE "none"

\* C11: extracting again from the mainContent of a first extraction, with
\* the same model identifier, finds no reasoning and returns that
\* mainContent unchanged.
C11_ExtractionIdempotent ==
  (cot.phase = "second") =>
     /\ cot.second.reasoning = <<>>
     /\ cot.second.mainContent = cot.first.mainContent

HasReasoning(r) == r.reasoning # NotSet /\ r.reasoning # <<>>

\* C12: a record from which a non-empty reasoning was extracted, and which
\* carries usage, has completion_tokens >= 1 and total_tokens >= 1,
\* whichever provider served it.
C12_TokenFloor ==
  (cot.phase = "record" /\ HasReasoning(cot.record)
     /\ cot.record.usage.present) =>
     /\ cot.record.usage.completion_tokens >= 1
     /\ cot.record.usage.total_tokens >= 1

\* C14: a record from which a non-empty reasoning was removed carries
\* reasoningTokens = ceiling(length(reasoning) / 4), whether or not the
\* provider reported usage.
C14_ReasoningTokensAlways ==
  (cot.phase = "record" /\ HasReasoning(cot.record)) =>
     /\ cot.record.reasoningTokens * 4 >= Len(cot.record.reasoning)
     /\ (cot.record.reasoningTokens - 1) * 4 < Len(cot.record.reasoning)

\* C15: a successful record whose model identifier contains an allow-listed
\* COT name has isCOT = true and fullContent = the raw provider output,
\* whichever provider served it; any other record has content = the raw
\* output and no isCOT.
C15_COTExactlyForCOTModels ==
  (cot.phase = "record") =>
     IF \E name \in {cot_grok4, cot_gemini_pro, cot_models_gemini_pro,
                     cot_deepseek_r1} : includes(cot.model, name)
       THEN cot.record.isCOT /\ cot.record.fullContent = cot.raw
       ELSE cot.record.content = cot.raw /\ ~cot.record.isCOT

HasBlock(text, open, close) ==
  \E o \in 1..Len(text) : \E c \in 1..Len(text) :
    IsAt(text, open, o) /\ IsAt(text, close, c) /\ c >= o + Len(open)

\* t is u without its leading and trailing blanks
IsTrimOf(t, u) ==
  \E a \in 0..Len(u) : \E b \in 0..Len(u) :
    /\ a + b <= Len(u)
    /\ t = SubSeq(u, a + 1, Len(u) - b)
    /\ \A i \in 1..a : u[i] \in {" ", "\n", "\t"}
    /\ \A i \in (Len(u) - b + 1)..Len(u) : u[i] \in {" ", "\n", "\t"}
    /\ t # <<>> => (t[1] \notin {" ", "\n", "\t"}
                      /\ t[Len(t)] \notin {" ", "\n", "\t"})

\* ext is the split of text at its first open ... close block
IsFirstBlockSplit(ext, text, open, close) ==
  \E o \in 1..Len(text) : \E c \in 1..Len(text) :
    /\ IsAt(text, open, o) /\ IsAt(text, close, c) /\ c >= o + Len(open)
    /\ \A o2 \in 1..(o - 1) : ~IsAt(text, open, o2)
    /\ \A c2 \in (o + Len(open))..(c - 1) : ~IsAt(text, close, c2)
    /\ ext.reasoning = SubSeq(text, o + Len(open), c - 1)
    /\ IsTrimOf(ext.mainContent,
                SubSeq(text, 1, o - 1)
                  \o SubSeq(text, c + Len(close), Len(text)))

LeadPatternMatches(text, lead, cues) ==
  /\ startsWith(text, lead)
  /\ \E k \in Len(lead)..Len(text) :
       IsAt(text, <<"\n", "\n">>, k + 1)
         /\ \E cue \in cues : IsAt(text, cue, k + 3)

GrokCase(model, text) ==
  includes(model, s_grok) /\ HasBlock(text, s_thinking_open, s_thinking_close)

DeepseekCase(model, text) ==
  includes(model, s_deepseek)
    /\ HasBlock(text, s_reasoning_open, s_reasoning_close)

GeminiCase(model, text) ==
  includes(model, s_gemini)
    /\ \/ LeadPatternMatches(text, s_let_me_think, WordCue)
       \/ LeadPatternMatches(text, s_i_need_to, WordCue)
       \/ LeadPatternMatches(text, s_first, AnswerCue)

C16_NeverEmpty ==
  (pc = "returned" /\ response.status = 200) =>
     /\ Len(response.responses) >= 1
     /\ T = 0 => response.responses = <<SystemRecord>>

\* C16 witness: a valid request whose task list is empty (n = -1) has
\* returned 200 with the synthetic record alone.
C16_Witness ==
  /\ pc = "returned"
  /\ response.status = 200
  /\ T = 0
  /\ Len(response.responses) = 1
  /\ response.responses[1].model = <<"s","y","s","t","e","m">>
  /\ response.responses[1].error # Absent

\* C13: every record of the responses array carries a content field and no
\* error field, or an error field and no content field; none carries both
\* and none carries neither.
C13_ContentXorError ==
  (pc = "returned") =>
     \A k \in 1..Len(response.responses) :
       (response.responses[k].content # Absent)
         # (response.responses[k].error # Absent)

\* C13 witness: a returned array holding a success record, an exhausted
\* record and a "Model not available" record.
C13_Witness ==
  /\ pc = "returned"
  /\ \E k \in 1..Len(response.responses) :
       response.responses[k].content # Absent
  /\ \E k \in 1..Len(response.responses) :
       IsExhausted(response.responses[k])
  /\ \E k \in 1..Len(response.responses) :
       response.responses[k].error = "Model not available"

\* C17: within a task the attempts are sequential and separated by backoff:
\* attempt k+1 is issued only after attempt k failed and its delay of
\* min(1000 * 2^k, 5000) ms elapsed, so the delays are 1000, 2000, 4000;
\* no delay exceeds 5000 and none follows the final failed attempt.
C17_BackoffSchedule ==
  \A t \in DOMAIN tstate :
    /\ Len(delays[t]) <= 3
    /\ delays[t] = SubSeq(<<1000, 2000, 4000>>, 1, Len(delays[t]))
    /\ \A k \in 1..Len(delays[t]) : delays[t][k] <= 5000
    /\ tstate[t] = "calling" =>
         (calls[t] = Len(delays[t]) + 1 /\ retryCount[t] = Len(delays[t]))
    /\ tstate[t] = "delay" =>
         (calls[t] = Len(delays[t]) /\ retryCount[t] = Len(delays[t]) - 1)
    /\ (tstate[t] = "done" /\ IsExhausted(results[t])) =>
         (calls[t] = 4 /\ Len(delays[t]) = 3)

\* C17 witness: a task whose fourth attempt failed, after the three delays.
C17_Witness ==
  \E t \in DOMAIN tstate :
    /\ tstate[t] = "done"
    /\ delays[t] = <<1000, 2000, 4000>>
    /\ results[t].error # Absent

RECURSIVE SumCalls(_)
SumCalls(k) == IF k = 0 THEN 0 ELSE calls[k] + SumCalls(k - 1)

\* C18: a task stops at its first successful attempt: succeeding at attempt
\* j after j-1 failures it has made exactly j provider calls and its record
\* is the success record without error; a routed task makes between 1 and 4
\* calls, and a request at most 4 * M * N.
C18_StopsAtFirstSuccess ==
  /\ \A t \in DOMAIN tstate :
       /\ (tstate[t] = "done" /\ results[t].content # Absent) =>
            /\ calls[t] = Len(delays[t]) + 1
            /\ calls[t] >= 1 /\ calls[t] <= 4
            /\ results[t].error = Absent
            /\ results[t].model = Tasks[t].modelId
       /\ Route(Tasks[t].modelId, clients) # Unavailable =>
            (calls[t] >= 1 /\ calls[t] <= 4)
  /\ (Validated /\ pc # "readBody") =>
       SumCalls(Len(calls)) <= 4 * ReqM * ReqN

\* C18 witness: a task has succeeded at its third attempt, after two failures.
C18_Witness ==
  \E t \in DOMAIN tstate :
    /\ tstate[t] = "done"
    /\ results[t].content # Absent
    /\ calls[t] = 3
    /\ Len(delays[t]) = 2

NChunks == (T + 5) \div 6

\* C19: with T <= 6 tasks there is one group and no pause; with T > 6 the
\* tasks are awaited in creation order in ceiling(T/6) chunks of 6 (the last
\* possibly smaller), with exactly ceiling(T/6) - 1 pauses, one between
\* consecutive chunks and none after the last; 13 tasks give 6, 6, 1 and
\* 2 pauses.
C19_Chunking ==
  /\ pc = "awaitAll" => (T <= 6 /\ pauses = 0 /\ responses = <<>>)
  /\ pc = "awaitBatch" =>
       /\ T > 6
       /\ pauses + 1 <= NChunks
       /\ Len(responses) = 6 * pauses
       /\ BatchSlice(batchStart) =
            (6 * pauses + 1)..(IF pauses + 1 < NChunks
                                THEN 6 * pauses + 6 ELSE T)
       /\ \A k \in 1..Len(responses) : responses[k].model = Tasks[k].modelId
  /\ pc = "pause" =>
       /\ Len(responses) = 6 * (pauses + 1)
       /\ Len(responses) < T
  /\ (pc = "returned" /\ Validated) =>
       /\ Len(response.responses) = T
       /\ pauses = IF T <= 6 THEN 0 ELSE NChunks - 1
       /\ T = 13 => pauses = 2

\* C19 witness: 13 tasks were awaited in three chunks with two pauses.
C19_Witness ==
  /\ pc = "returned"
  /\ T = 13
  /\ pauses = 2
  /\ batchStart = 12
  /\ Len(response.responses) = 13

Carries(v) == v # Undefined

\* C21: a request sent to the primary chat-completion provider carries
\* exactly one of the two parameter sets: for an identifier containing o3
\* or o4-mini a completion-token budget and neither temperature nor
\* max_tokens; otherwise temperature and max_tokens and no budget.
C21_OneParameterSet ==
  (sent.phase = "openai") =>
     IF includes(sent.model, <<"o","3">>)
          \/ includes(sent.model, <<"o","4","-","m","i","n","i">>)
       THEN /\ Carries(sent.params.max_completion_tokens)
            /\ ~Carries(sent.params.temperature)
            /\ ~Carries(sent.params.max_tokens)
       ELSE /\ Carries(sent.params.temperature)
            /\ Carries(sent.params.max_tokens)
            /\ ~Carries(sent.params.max_completion_tokens)

\* C21 witness: o4-mini was sent with the budget taken from maxTokens.
C21_Witness ==
  /\ sent.phase = "openai"
  /\ sent.model = id_o4_mini
  /\ sent.max_completion_tokens = Undefined
  /\ sent.params.max_completion_tokens = 500

\* the text the i-th message is sent with: the system prompt and a blank
\* line come first when it is the first message, its role is user and the
\* prompt is not empty
SentText(i) ==
  IF i = 1 /\ sent.systemPrompt # <<>> /\ sent.input[1].role = "user"
    THEN sent.systemPrompt \o <<"\n", "\n">> \o sent.input[1].content
    ELSE sent.input[i].content

\* C22: the gemini conversion loses and reorders nothing: the current
\* prompt is the last message exactly when its role is user (otherwise it
\* is empty and the last message is in the history); the history holds
\* every other message in order, role user kept and any other role turned
\* into model; the system prompt is prepended with a blank line to the
\* first message exactly when it is non-empty and that role is user; the
\* caller's messages array is not mutated.
C22_GeminiConversion ==
  (sent.phase = "google") =>
     LET k == Len(sent.input)
         lastUser == k > 0 /\ sent.input[k].role = "user"
     IN /\ sent.currentPrompt = IF lastUser THEN SentText(k) ELSE <<>>
        /\ Len(sent.history) = IF lastUser THEN k - 1 ELSE k
        /\ \A i \in 1..Len(sent.history) :
             /\ sent.history[i].role =
                  IF sent.input[i].role = "user" THEN "user" ELSE "model"
             /\ sent.history[i].text = SentText(i)
        /\ Len(sent.messages) = k
        /\ \A i \in 1..k : sent.heap[sent.messages[i]] = sent.input[i]

\* C22 witness: three messages user, system, user with a system prompt: the
\* first is sent merged, the second as model, the third as the prompt.
C22_Witness ==
  /\ sent.phase = "google"
  /\ Len(sent.input) = 3
  /\ sent.input[1].role = "user"
  /\ sent.input[2].role = "system"
  /\ sent.input[3].role = "user"
  /\ sent.systemPrompt = <<"S">>
  /\ Len(sent.history) = 2
  /\ sent.history[1].text = <<"S", "\n", "\n", "a">>
  /\ sent.history[2].role = "model"
  /\ sent.currentPrompt = <<"c">>

\* the step changes what task t owns
TaskStepped(t) ==
  \/ tstate'[t] # tstate[t]
  \/ retryCount'[t] # retryCount[t]
  \/ calls'[t] # calls[t]
  \/ delays'[t] # delays[t]
  \/ results'[t] # results[t]

\* C23: call tasks are independent: a step of one task (its call failing or
\* succeeding, its delay elapsing) leaves the retry count, the attempts, the
\* delays and the record of every other task as they were, and moves the
\* task itself by its own outcome only: at most one more call, at most one
\* more retry, a record once and for good.
C23_TasksIndependent ==
  [][(DOMAIN tstate' = DOMAIN tstate) =>
       \A t \in DOMAIN tstate :
         TaskStepped(t) =>
           /\ \A u \in DOMAIN tstate \ {t} : ~TaskStepped(u)
           /\ calls'[t] - calls[t] \in {0, 1}
           /\ retryCount'[t] - retryCount[t] \in {0, 1}
           /\ retryCount'[t] = calls'[t] - 1
           /\ tstate[t] # "done"]_vars

\* C23 witness: one task has failed on all four attempts while another of
\* the same request succeeded at its first.
C23_Witness ==
  \E t \in DOMAIN tstate : \E u \in DOMAIN tstate :
    /\ t # u
    /\ tstate[t] = "done" /\ IsExhausted(results[t]) /\ calls[t] = 4
    /\ tstate[u] = "done" /\ results[u].content # Absent /\ calls[u] = 1
    /\ retryCount[u] = 0

\* C24: a request that passed validation, every provider call and every
\* timer completing, ends with the handler returning its response, every
\* call task resolved to a record: no task retries forever and no chunk
\* waits forever.
C24_Terminates ==
  (req.parses /\ ~Invalid(req)) ~>
     /\ pc = "returned"
     /\ response.status = 200
     /\ DOMAIN tstate = 1..T
     /\ \A t \in 1..T : tstate[t] = "done" /\ results[t] # NoRecord

\* C24 witness: a request of two chunks has returned after a pause, one of
\* its tasks having used up its retries.
C24_Witness ==
  /\ pc = "returned"
  /\ T > 6
  /\ pauses = 1
  /\ \E t \in 1..T : IsExhausted(results[t]) /\ Len(delays[t]) = 3
  /\ \A t \in 1..T : tstate[t] = "done"

\* the request names a bin
NamesBin == exp.binId # <<"<absent>">> /\ exp.binId # <<>>

\* the request carries a session token: a non-empty X-Session-Token header,
\* or a cookie text in which "session=" is followed by a token character
CarriesToken ==
  \/ exp.header # <<"<absent>">> /\ exp.header # <<>>
  \/ /\ exp.cookie # <<"<absent>">>
     /\ \E i \in 1..Len(exp.cookie) :
          /\ IsAt(exp.cookie, <<"s","e","s","s","i","o","n","=">>, i)
          /\ i + 8 <= Len(exp.cookie)
          /\ exp.cookie[i + 8] # ";"

Authenticated == CarriesToken /\ exp.session # Absent /\ exp.user.found

OthersPersonalBin ==
  exp.bin.visibility = "personal" /\ exp.bin.createdBy # exp.user.email

OtherTeamsBin ==
  exp.bin.visibility = "team" /\ exp.bin.teamId # exp.user.teamId

Granted ==
  /\ NamesBin
  /\ Authenticated
  /\ exp.bin.found
  /\ ~OthersPersonalBin
  /\ ~OtherTeamsBin

\* C25: the export endpoint lists, reads and returns conversations only for
\* a requester whose session token resolves to a session and a user, and a
\* bin that exists and is neither a personal bin of another user nor a team
\* bin of another team; otherwise it answers 400 (no bin id), 401 (not
\* authenticated), 404 (no bin) or 403 (access denied) and no conversation
\* is listed or read.
C25_ExportGuarded ==
  /\ (exp.listed \/ exp.reads # <<>> \/ exp.body # NoBody) => Granted
  /\ (exp.phase = "returned" /\ exp.status = 200) =>
       (Granted /\ exp.listed /\ exp.body = exp.lines)
  /\ (exp.phase = "returned" /\ ~Granted) =>
       /\ ~exp.listed
       /\ exp.reads = <<>>
       /\ exp.body = NoBody
       /\ exp.status = IF ~NamesBin THEN 400
                       ELSE IF ~Authenticated THEN 401
                       ELSE IF ~exp.bin.found THEN 404
                       ELSE 403

\* C25 witness: carol, authenticated by her cookie, exported a bin of her
\* team: two conversations were listed and read, one of them was gone.
C25_Witness ==
  /\ exp.phase = "returned"
  /\ exp.status = 200
  /\ exp.user.email = "carol"
  /\ exp.bin.visibility = "team"
  /\ exp.bin.teamId = "B"
  /\ Len(exp.reads) = 2
  /\ Len(exp.body) = 1

====
